---- MODULE Spec2Model ----
(***************************************************************************)
(* The credit ledger, loyalty tiers and overdue sweep of src/app.py.       *)
(*                                                                         *)
(* Every route handler is one action; the Firestore collections are the    *)
(* state.  A collection is a function from document ids to records, its    *)
(* DOMAIN being the documents that exist.                                  *)
(*                                                                         *)
(* Money is counted in cents (1.50 is 150, 40.00 is 4000), so that the     *)
(* float arithmetic of the handlers, which is exact on multiples of 0.01   *)
(* of this size, is integer arithmetic here.  credit_limit keeps the unit  *)
(* of the source (rand).  The clock counts whole days.                     *)
(*                                                                         *)
(* The requests are those of a logged-in operator and of a logged-in       *)
(* customer; a request that fails validation before it reads the store     *)
(* (a missing field, a short password) is not a step.  The sessions        *)
(* themselves, with the wall clock in minutes, are modelled apart, for one *)
(* browser.  /sell on credit and /payment are also given one store call at *)
(* a time, for what happens when two requests overlap or the store fails.  *)
(*                                                                         *)
(* Fields no handler reads back (password_hash, house_number,              *)
(* cash_on_hand, the created / last_purchase / last_payment / timestamp    *)
(* stamps of sales, payments, debtors and point_history) are left out.     *)
(***************************************************************************)
EXTENDS Integers, Sequences, FiniteSets, TLC

VARIABLES
    customers,      \* db.collection('customers'): phone -> record
    debtors,        \* db.collection('debtors'): name -> record
    sales,          \* db.collection('sales'): id -> record
    nextSale,       \* the id the next added sale gets (ids are never reused)
    payments,       \* db.collection('payments'), in the order added
    point_history,  \* db.collection('point_history'), in the order added
    orders,         \* db.collection('orders'): id -> record
    now,            \* datetime.now(timezone.utc), in days
    resp,           \* the response of the last request
    probe,          \* a pure helper under check: its argument and its result
    session,        \* the browser's Flask session (a signed cookie)
    clock,          \* datetime.now(), in minutes
    requests,       \* the requests served step by step: where each is, what it read
    seen,           \* history: when the customer of the session was last active
    swept           \* history: the store and the clock as the last sweep left them

vars == <<customers, debtors, sales, nextSale, payments, point_history,
          orders, now, resp, probe, session, clock, requests, seen,
          swept>>

----------------------------------------------------------------------------
(* Bounds of the model *)

MaxDocs == 3    \* documents ever added to sales, payments and orders
MaxDay == 28    \* the last day the clock reaches
MaxMinute == 47 \* the last minute the wall clock reaches

(* Inputs of the requests.  Document ids and names are strings; PhoneIds *)
(* lists the phones in document-id order.                                *)

PhoneIds == <<"0711", "0722">>
Phones == {PhoneIds[i] : i \in 1..Len(PhoneIds)}
Names == {"alice", "bob"}
Items == {"loose", "pack"}
Methods == {"cash", "credit"}
Statuses == {"approved", "completed", "rejected"}
TickDays == {27, 28}

----------------------------------------------------------------------------
(* Business constants *)

LOOSE_PRICE == 150
PACK_PRICE_CASH == 3000
PACK_PRICE_CREDIT == 4000
STICKS_PER_PACK == 20
TRUST_SCORE == 50
PAYMENT_BONUS == 5
OVERDUE_PENALTY == 2
OVERDUE_WEEKS == 4
SESSION_TIMEOUT == 30
DEBT_INCREASE_PCT == 10

TIER_NEW == [name |-> "new", limit |-> 80, min_points |-> 0]
TIER_REGULAR == [name |-> "regular", limit |-> 100, min_points |-> 50]
TIER_TRUSTED == [name |-> "trusted", limit |-> 120, min_points |-> 100]

----------------------------------------------------------------------------
(* The document store *)

(* The documents added so far to the collections that only grow by add() *)
DocsAdded == (nextSale - 1) + Len(payments) + Cardinality(DOMAIN orders)

Put(coll, k, v) == [x \in DOMAIN coll \cup {k} |-> IF x = k THEN v ELSE coll[x]]
Remove(coll, k) == [x \in DOMAIN coll \ {k} |-> coll[x]]
Max(a, b) == IF a >= b THEN a ELSE b

(* customers.where('name', '==', name).limit(1): the matching documents come *)
(* in document-id order, so the first is the one with the least phone.       *)
MatchingIdx(name) ==
    {i \in 1..Len(PhoneIds) :
        PhoneIds[i] \in DOMAIN customers /\ customers[PhoneIds[i]].name = name}
FirstByName(name) ==
    IF MatchingIdx(name) = {} THEN {}
    ELSE {PhoneIds[CHOOSE i \in MatchingIdx(name) : \A j \in MatchingIdx(name) : i <= j]}

----------------------------------------------------------------------------
(* Helpers *)

(* Mutant: the thresholds taken as strict *)
calculate_tier_Strict(points) ==
    IF points > 100 THEN TIER_TRUSTED
    ELSE IF points > 50 THEN TIER_REGULAR
    ELSE TIER_NEW

calculate_tier(points) ==
    IF points >= 100 THEN TIER_TRUSTED
    ELSE IF points >= 50 THEN TIER_REGULAR
    ELSE TIER_NEW

(* Mutant: a limit the operator has set by hand is kept *)
update_customer_tier_KeepOverride(c, points) ==
    [c EXCEPT !.loyalty_points = points,
              !.tier = calculate_tier(points).name,
              !.credit_limit = IF c.tier_override THEN @
                               ELSE calculate_tier(points).limit]

update_customer_tier(c, points) ==
    [c EXCEPT !.loyalty_points = points,
              !.tier = calculate_tier(points).name,
              !.credit_limit = calculate_tier(points).limit]

(* The JSON answers of the handlers, in one shape: the HTTP code, the      *)
(* "status" field and record_payment's "paid_in_full".  The amounts an     *)
(* answer repeats (price, profit_made, new_balance) are left out.          *)
Response(code, status) ==
    [code |-> code, status |-> status, paid_in_full |-> FALSE]
Success == Response(200, "success")
Failure == Response(200, "error")
(* Mutant: the 404 left off the answer *)
NotFound_Plain == Response(200, "error")

NotFound == Response(404, "error")
ServerError == Response(500, "error")
Redirect == Response(302, "redirect")
Page == Response(200, "page")

----------------------------------------------------------------------------
(* /customer/register *)

NewCustomer(name, t) ==
    [name |-> name, approved |-> FALSE, credit_enabled |-> FALSE,
     credit_limit |-> 80, loyalty_points |-> 0, tier |-> "new",
     tier_override |-> FALSE, current_debt |-> 0, last_debt_check |-> t,
     debt_at_last_check |-> 0]

customer_register(name, phone) ==
    /\ IF phone \in DOMAIN customers
       THEN /\ resp' = Failure
            /\ UNCHANGED customers
       ELSE /\ customers' = Put(customers, phone, NewCustomer(name, now))
            /\ resp' = Success
    /\ UNCHANGED <<debtors, sales, nextSale, payments, point_history, orders,
                   now, probe, session, clock, requests, seen, swept>>

(* /customers/approve and /customers/toggle-credit: update() of a document *)
(* that does not exist raises, which Flask answers with a 500.             *)
approve_customer(phone) ==
    /\ IF phone \in DOMAIN customers
       THEN /\ customers' = [customers EXCEPT ![phone].approved = TRUE]
            /\ resp' = Success
       ELSE /\ resp' = ServerError
            /\ UNCHANGED customers
    /\ UNCHANGED <<debtors, sales, nextSale, payments, point_history, orders,
                   now, probe, session, clock, requests, seen, swept>>

toggle_credit(phone, enabled) ==
    /\ IF phone \in DOMAIN customers
       THEN /\ customers' = [customers EXCEPT ![phone].credit_enabled = enabled]
            /\ resp' = Success
       ELSE /\ resp' = ServerError
            /\ UNCHANGED customers
    /\ UNCHANGED <<debtors, sales, nextSale, payments, point_history, orders,
                   now, probe, session, clock, requests, seen, swept>>

(* /customers/update-limit *)
update_credit_limit(phone, limit) ==
    /\ IF phone \in DOMAIN customers
       THEN /\ customers' = [customers EXCEPT ![phone].credit_limit = limit,
                                              ![phone].tier_override = TRUE]
            /\ resp' = Success
       ELSE /\ resp' = ServerError
            /\ UNCHANGED customers
    /\ UNCHANGED <<debtors, sales, nextSale, payments, point_history, orders, now,
                   probe, session, clock, requests, seen, swept>>

----------------------------------------------------------------------------
(* /sell *)

(* Mutant: a pack costs the cash price whatever the method *)
SalePrice_CashPack(item, method, qty) ==
    IF item = "loose" THEN LOOSE_PRICE * qty ELSE PACK_PRICE_CASH * qty

(* qty is int(data.get('qty', 1)), the quantity as the handler uses it *)
SalePrice(item, method, qty) ==
    IF item = "loose" THEN LOOSE_PRICE * qty
    ELSE (IF method = "credit" THEN PACK_PRICE_CREDIT ELSE PACK_PRICE_CASH) * qty

SaleSticks(item, qty) ==
    IF item = "loose" THEN qty ELSE qty * STICKS_PER_PACK

(* sticks // 20: Python's floor division, which is \div *)
SalePoints(sticks) == sticks \div 20

DebtorAfterSale(name, price) ==
    IF name \in DOMAIN debtors
    THEN [debtors EXCEPT ![name].balance = @ + price]
    ELSE Put(debtors, name, [balance |-> price, trust_score |-> TRUST_SCORE])

(* Mutant: the tier is not re-evaluated after the sale *)
CustomerAfterSale_NoTier(c, price, sticks) ==
    [c EXCEPT !.current_debt = @ + price,
              !.loyalty_points = @ + SalePoints(sticks)]

CustomerAfterSale(c, price, sticks) ==
    update_customer_tier(
        [c EXCEPT !.current_debt = @ + price,
                  !.loyalty_points = @ + SalePoints(sticks)],
        c.loyalty_points + SalePoints(sticks))

SaleHistory(phone, sticks) ==
    IF sticks >= 20
    THEN <<[customer_phone |-> phone, change |-> SalePoints(sticks),
            reason |-> "Purchase"]>>
    ELSE <<>>

process_sale(item, method, qty, name) ==
    LET price == SalePrice(item, method, qty)
        sticks == SaleSticks(item, qty)
    IN /\ DocsAdded < MaxDocs
       /\ sales' = Put(sales, nextSale,
                       [qty |-> sticks, price |-> price, method |-> method,
                        customer |-> name, item_type |-> item, from_order |-> 0])
       /\ nextSale' = nextSale + 1
       /\ IF method = "credit"
          THEN /\ debtors' = DebtorAfterSale(name, price)
               /\ IF FirstByName(name) # {}
                  THEN LET phone == CHOOSE p \in FirstByName(name) : TRUE
                       IN /\ customers' = [customers EXCEPT ![phone] =
                                 CustomerAfterSale(@, price, sticks)]
                          /\ point_history' = point_history \o SaleHistory(phone, sticks)
                  ELSE UNCHANGED <<customers, point_history>>
          ELSE UNCHANGED <<debtors, customers, point_history>>
       /\ resp' = Success
       /\ UNCHANGED <<payments, orders, now, probe, session, clock, requests,
                      seen, swept>>

----------------------------------------------------------------------------
(* /payment *)

(* Mutant: the balance is not floored at 0 *)
PaymentNewBalance_NoFloor(current_balance, amount) == current_balance - amount

PaymentNewBalance(current_balance, amount) == Max(0, current_balance - amount)

DebtorAfterPayment(name, new_balance) ==
    IF new_balance = 0
    THEN Remove(debtors, name)
    ELSE [debtors EXCEPT ![name].balance = new_balance]

(* Mutant: the baseline keeps the debt from before the payment *)
CustomerAfterPayment_StaleBaseline(c, amount, t) ==
    update_customer_tier(
        [c EXCEPT !.current_debt = Max(0, @ - amount),
                  !.loyalty_points = @ + PAYMENT_BONUS,
                  !.last_debt_check = t,
                  !.debt_at_last_check = c.current_debt],
        c.loyalty_points + PAYMENT_BONUS)

CustomerAfterPayment(c, amount, t) ==
    update_customer_tier(
        [c EXCEPT !.current_debt = Max(0, @ - amount),
                  !.loyalty_points = @ + PAYMENT_BONUS,
                  !.last_debt_check = t,
                  !.debt_at_last_check = Max(0, c.current_debt - amount)],
        c.loyalty_points + PAYMENT_BONUS)

record_payment(name, amount) ==
    IF name \notin DOMAIN debtors
    THEN /\ resp' = NotFound
         /\ UNCHANGED <<customers, debtors, sales, nextSale, payments,
                        point_history, orders, now, probe, session, clock, requests, seen,
                        swept>>
    ELSE LET current_balance == debtors[name].balance
             new_balance == PaymentNewBalance(current_balance, amount)
         IN /\ DocsAdded < MaxDocs
            /\ debtors' = DebtorAfterPayment(name, new_balance)
            /\ payments' = Append(payments,
                   [customer |-> name, amount |-> amount,
                    previous_balance |-> current_balance,
                    new_balance |-> new_balance])
            /\ IF FirstByName(name) # {}
               THEN LET phone == CHOOSE p \in FirstByName(name) : TRUE
                    IN /\ customers' = [customers EXCEPT ![phone] =
                              CustomerAfterPayment(@, amount, now)]
                       /\ point_history' = Append(point_history,
                              [customer_phone |-> phone, change |-> PAYMENT_BONUS,
                               reason |-> "Payment"])
               ELSE UNCHANGED <<customers, point_history>>
            /\ resp' = [Success EXCEPT !.paid_in_full = (new_balance = 0)]
            /\ UNCHANGED <<sales, nextSale, orders, now, probe, session, clock,
                           requests, seen, swept>>

----------------------------------------------------------------------------
(* /delete-transaction *)

(* Mutant: the reversed balance is not floored at 0 *)
ReversalNewBalance_NoFloor(balance, amount) == balance - amount

ReversalNewBalance(balance, amount) == Max(0, balance - amount)

DebtorAfterReversal(name, amount) ==
    IF name \in DOMAIN debtors
    THEN LET new_balance == ReversalNewBalance(debtors[name].balance, amount)
         IN IF new_balance = 0
            THEN Remove(debtors, name)
            ELSE [debtors EXCEPT ![name].balance = new_balance]
    ELSE debtors

delete_transaction(transaction_id) ==
    /\ IF transaction_id \notin DOMAIN sales
       THEN /\ resp' = NotFound
            /\ UNCHANGED <<debtors, sales>>
       ELSE LET trans_data == sales[transaction_id]
            IN /\ debtors' = IF trans_data.method = "credit"
                             THEN DebtorAfterReversal(trans_data.customer,
                                                      trans_data.price)
                             ELSE debtors
               /\ sales' = Remove(sales, transaction_id)
               /\ resp' = Success
    /\ UNCHANGED <<customers, nextSale, payments, point_history, orders, now,
                   probe, session, clock, requests, seen, swept>>

----------------------------------------------------------------------------
(* /customer/order and /orders/update *)

RECURSIVE OrderTotal(_, _), OrderSticks(_)
OrderTotal(items, payment_method) ==
    IF items = <<>> THEN 0
    ELSE (IF Head(items).type = "loose"
          THEN LOOSE_PRICE * Head(items).qty
          ELSE (IF payment_method = "credit" THEN PACK_PRICE_CREDIT
                ELSE PACK_PRICE_CASH) * Head(items).qty)
         + OrderTotal(Tail(items), payment_method)
OrderSticks(items) ==
    IF items = <<>> THEN 0
    ELSE (IF Head(items).type = "loose" THEN Head(items).qty
          ELSE Head(items).qty * STICKS_PER_PACK)
         + OrderSticks(Tail(items))

(* Mutant: the debt is not taken off the limit *)
AvailableCredit_IgnoresDebt(cust) == cust.credit_limit * 100

(* credit_limit is in rand, the debt and the total in cents *)
AvailableCredit(cust) == cust.credit_limit * 100 - cust.current_debt

(* The session of a customer is opened by customer_login, which asks for an *)
(* existing, approved account.                                              *)
customer_create_order(phone, items, payment_method) ==
    /\ phone \in DOMAIN customers
    /\ customers[phone].approved
    /\ LET cust == customers[phone]
           total == OrderTotal(items, payment_method)
           order_id == Cardinality(DOMAIN orders) + 1
       IN IF \/ items = <<>>
             \/ payment_method = "credit" /\ ~cust.credit_enabled
             \/ payment_method = "credit" /\ total > AvailableCredit(cust)
          THEN /\ resp' = Failure
               /\ UNCHANGED orders
          ELSE /\ DocsAdded < MaxDocs
               /\ orders' = Put(orders, order_id,
                      [customer_phone |-> phone, customer_name |-> cust.name,
                       items |-> items, total |-> total,
                       total_sticks |-> OrderSticks(items),
                       payment_method |-> payment_method, status |-> "pending"])
               /\ resp' = Success
    /\ UNCHANGED <<customers, debtors, sales, nextSale, payments, point_history, now,
                   probe, session, clock, requests, seen, swept>>

DebtorAfterOrder(name, total_price) ==
    IF name \in DOMAIN debtors
    THEN [debtors EXCEPT ![name].balance = @ + total_price]
    ELSE Put(debtors, name, [balance |-> total_price, trust_score |-> TRUST_SCORE])

(* Mutant: a completed order earns no points *)
CustomerAfterOrder_NoPoints(c, total_price, total_sticks) ==
    update_customer_tier([c EXCEPT !.current_debt = @ + total_price],
                         c.loyalty_points)

CustomerAfterOrder(c, total_price, total_sticks) ==
    update_customer_tier(
        [c EXCEPT !.current_debt = @ + total_price,
                  !.loyalty_points = @ + (total_sticks \div 20)],
        c.loyalty_points + (total_sticks \div 20))

update_order_status(order_id, status) ==
    IF order_id \notin DOMAIN orders
    THEN /\ resp' = NotFound
         /\ UNCHANGED <<customers, debtors, sales, nextSale, payments,
                        point_history, orders, now, probe, session, clock, requests, seen,
                        swept>>
    ELSE LET order_data == orders[order_id]
         IN /\ orders' = [orders EXCEPT ![order_id].status = status]
            /\ IF status = "completed"
               THEN /\ DocsAdded < MaxDocs
                    /\ sales' = Put(sales, nextSale,
                           [qty |-> order_data.total_sticks,
                            price |-> order_data.total,
                            method |-> order_data.payment_method,
                            customer |-> order_data.customer_name,
                            item_type |-> "pack", from_order |-> order_id])
                    /\ nextSale' = nextSale + 1
                    /\ IF order_data.payment_method = "credit"
                       THEN /\ debtors' = DebtorAfterOrder(order_data.customer_name,
                                                           order_data.total)
                            /\ customers' = [customers EXCEPT
                                   ![order_data.customer_phone] =
                                       CustomerAfterOrder(@, order_data.total,
                                                          order_data.total_sticks)]
                       ELSE UNCHANGED <<debtors, customers>>
               ELSE UNCHANGED <<sales, nextSale, debtors, customers>>
            /\ resp' = Success
            /\ UNCHANGED <<payments, point_history, now, probe, session, clock,
                           requests, seen, swept>>

----------------------------------------------------------------------------
(* check_overdue_penalties, run by / (the dashboard) *)

(* Mutant: overdue only after more than 4 weeks *)
WeeksOverdue_Strict(t, last_check) == (t - last_check) > OVERDUE_WEEKS * 7

(* weeks_overdue = (now - last_check).days / 7; weeks_overdue >= 4 *)
WeeksOverdue(t, last_check) == (t - last_check) >= OVERDUE_WEEKS * 7

(* Mutant: penalised only above 10% *)
DebtIncreased_Strict(current_debt, debt_at_check) ==
    /\ debt_at_check > 0
    /\ (current_debt - debt_at_check) * 100 > DEBT_INCREASE_PCT * debt_at_check

(* debt_at_check > 0 and ((current_debt - debt_at_check) / debt_at_check) * 100 >= 10 *)
DebtIncreased(current_debt, debt_at_check) ==
    /\ debt_at_check > 0
    /\ (current_debt - debt_at_check) * 100 >= DEBT_INCREASE_PCT * debt_at_check

PenalisedPoints(points) == Max(0, points - OVERDUE_PENALTY)

(* Mutant: the 4-week check does not reset last_debt_check *)
SweepCustomer_NoReset(data, t) ==
    IF (~data.approved) \/ data.current_debt = 0 THEN data
    ELSE LET overdue == WeeksOverdue(t, data.last_debt_check)
             grown == DebtIncreased(data.current_debt, data.debt_at_last_check)
             c1 == IF overdue
                   THEN update_customer_tier(data, PenalisedPoints(data.loyalty_points))
                   ELSE data
         IN IF grown
            THEN [update_customer_tier(c1, PenalisedPoints(data.loyalty_points))
                     EXCEPT !.debt_at_last_check = data.current_debt]
            ELSE c1

(* One turn of the loop: `data` is the snapshot the query returned, and both *)
(* checks compute their new_points from it.                                  *)
SweepCustomer(data, t) ==
    IF (~data.approved) \/ data.current_debt = 0 THEN data
    ELSE LET overdue == WeeksOverdue(t, data.last_debt_check)
             grown == DebtIncreased(data.current_debt, data.debt_at_last_check)
             c1 == IF overdue
                   THEN [update_customer_tier(data, PenalisedPoints(data.loyalty_points))
                            EXCEPT !.last_debt_check = t]
                   ELSE data
         IN IF grown
            THEN [update_customer_tier(c1, PenalisedPoints(data.loyalty_points))
                     EXCEPT !.debt_at_last_check = data.current_debt]
            ELSE c1

SweepEntries(phone, data, t) ==
    IF (~data.approved) \/ data.current_debt = 0 THEN <<>>
    ELSE (IF WeeksOverdue(t, data.last_debt_check)
          THEN <<[customer_phone |-> phone, change |-> -OVERDUE_PENALTY,
                  reason |-> "4 weeks overdue"]>>
          ELSE <<>>)
         \o
         (IF DebtIncreased(data.current_debt, data.debt_at_last_check)
          THEN <<[customer_phone |-> phone, change |-> -OVERDUE_PENALTY,
                  reason |-> "Debt increased"]>>
          ELSE <<>>)

RECURSIVE SweepLog(_, _)
SweepLog(i, t) ==
    IF i > Len(PhoneIds) THEN <<>>
    ELSE (IF PhoneIds[i] \in DOMAIN customers
          THEN SweepEntries(PhoneIds[i], customers[PhoneIds[i]], t)
          ELSE <<>>)
         \o SweepLog(i + 1, t)

check_overdue_penalties ==
    /\ customers' = [p \in DOMAIN customers |-> SweepCustomer(customers[p], now)]
    /\ point_history' = point_history \o SweepLog(1, now)

(* Mutant: the thresholds taken as inclusive *)
RiskLevel_Inclusive(cash_total, credit_total) ==
    IF cash_total > 0
    THEN (IF credit_total * 10 >= 6 * cash_total THEN "HIGH"
          ELSE IF credit_total * 10 >= 3 * cash_total THEN "MEDIUM"
          ELSE "SAFE")
    ELSE (IF credit_total > 0 THEN "HIGH" ELSE "SAFE")

(* risk_level of the dashboard: credit_total / cash_total > 0.6 and > 0.3. *)
(* The totals are sums of prices, so multiples of 0.50, and the float      *)
(* quotient of two such numbers is above the float 0.6 (or 0.3) exactly    *)
(* when 10 * credit_total > 6 (or 3) * cash_total.                         *)
RiskLevel(cash_total, credit_total) ==
    IF cash_total > 0
    THEN (IF credit_total * 10 > 6 * cash_total THEN "HIGH"
          ELSE IF credit_total * 10 > 3 * cash_total THEN "MEDIUM"
          ELSE "SAFE")
    ELSE (IF credit_total > 0 THEN "HIGH" ELSE "SAFE")

(* The history variable swept is left to the specification that uses the *)
(* handler: LoadDashboard and LoadDashboardRecorded below.               *)
dashboard ==
    /\ check_overdue_penalties
    /\ resp' = Success
    /\ UNCHANGED <<debtors, sales, nextSale, payments, orders, now, probe,
                   session, clock, requests, seen>>

----------------------------------------------------------------------------
(* /sell on credit and /payment, one store call at a time.  The server     *)
(* runs requests in threads, so the calls of two requests interleave.  A   *)
(* request keeps what it has read in its local variables.                  *)

Requests == {"r1", "r2"}

Request(kind, pc, name) ==
    [kind |-> kind, pc |-> pc, name |-> name, price |-> 0, sticks |-> 0,
     amount |-> 0, sale_id |-> 0, exists |-> FALSE, current_balance |-> 0,
     phone |-> "", debt_read |-> 0, points_read |-> 0, new_debt |-> 0,
     new_points |-> 0, failed_at |-> ""]

At(r, kind, pc) ==
    r \in DOMAIN requests /\ requests[r].kind = kind /\ requests[r].pc = pc
Running(r) == r \in DOMAIN requests /\ requests[r].pc \notin {"done", "failed"}

(* An exception leaves the handler: Flask answers 500, nothing is undone *)
Raise(r) ==
    [requests EXCEPT ![r].pc = "failed", ![r].failed_at = requests[r].pc]

(* db.collection('sales').add(...) *)
sale_add(r, item, qty, name) ==
    /\ r \notin DOMAIN requests
    /\ sales' = Put(sales, nextSale,
                    [qty |-> SaleSticks(item, qty),
                     price |-> SalePrice(item, "credit", qty),
                     method |-> "credit", customer |-> name, item_type |-> item,
                     from_order |-> 0])
    /\ nextSale' = nextSale + 1
    /\ requests' = Put(requests, r,
           [Request("sale", "debtor_get", name) EXCEPT
               !.price = SalePrice(item, "credit", qty),
               !.sticks = SaleSticks(item, qty),
               !.sale_id = nextSale])
    /\ UNCHANGED <<customers, debtors, payments, point_history, orders, now, resp,
                   probe, session, clock, seen, swept>>

(* doc = debtor_ref.get() *)
sale_debtor_get(r) ==
    /\ At(r, "sale", "debtor_get")
    /\ requests' = [requests EXCEPT
           ![r].exists = requests[r].name \in DOMAIN debtors,
           ![r].pc = "debtor_write"]
    /\ UNCHANGED <<customers, debtors, sales, nextSale, payments, point_history,
                   orders, now, resp, probe, session, clock, seen,
                   swept>>

(* debtor_ref.update({'balance': Increment(price)}), which raises when the *)
(* document is gone, or debtor_ref.set({'balance': price, ...})            *)
sale_debtor_write(r) ==
    /\ At(r, "sale", "debtor_write")
    /\ LET q == requests[r]
       IN IF q.exists
          THEN IF q.name \in DOMAIN debtors
               THEN /\ debtors' = [debtors EXCEPT ![q.name].balance = @ + q.price]
                    /\ requests' = [requests EXCEPT ![r].pc = "cust_query"]
                    /\ UNCHANGED resp
               ELSE /\ requests' = Raise(r)
                    /\ resp' = ServerError
                    /\ UNCHANGED debtors
          ELSE /\ debtors' = Put(debtors, q.name,
                      [balance |-> q.price, trust_score |-> TRUST_SCORE])
               /\ requests' = [requests EXCEPT ![r].pc = "cust_query"]
               /\ UNCHANGED resp
    /\ UNCHANGED <<customers, sales, nextSale, payments, point_history, orders, now,
                   probe, session, clock, seen, swept>>

(* doc = debtor_ref.get() of /payment, and the 404 *)
payment_debtor_get(r, name, amount) ==
    /\ r \notin DOMAIN requests
    /\ IF name \notin DOMAIN debtors
       THEN /\ resp' = NotFound
            /\ UNCHANGED requests
       ELSE /\ requests' = Put(requests, r,
                   [Request("payment", "debtor_write", name) EXCEPT
                       !.amount = amount,
                       !.current_balance = debtors[name].balance])
            /\ UNCHANGED resp
    /\ UNCHANGED <<customers, debtors, sales, nextSale, payments, point_history,
                   orders, now, probe, session, clock, seen, swept>>

(* debtor_ref.delete(), or debtor_ref.update({'balance': new_balance}) *)
payment_debtor_write(r) ==
    /\ At(r, "payment", "debtor_write")
    /\ LET q == requests[r]
           new_balance == PaymentNewBalance(q.current_balance, q.amount)
       IN IF new_balance = 0
          THEN /\ debtors' = Remove(debtors, q.name)
               /\ requests' = [requests EXCEPT ![r].pc = "payment_add"]
               /\ UNCHANGED resp
          ELSE IF q.name \in DOMAIN debtors
               THEN /\ debtors' = [debtors EXCEPT ![q.name].balance = new_balance]
                    /\ requests' = [requests EXCEPT ![r].pc = "payment_add"]
                    /\ UNCHANGED resp
               ELSE /\ requests' = Raise(r)
                    /\ resp' = ServerError
                    /\ UNCHANGED debtors
    /\ UNCHANGED <<customers, sales, nextSale, payments, point_history, orders, now,
                   probe, session, clock, seen, swept>>

(* db.collection('payments').add(...) *)
payment_add(r) ==
    /\ At(r, "payment", "payment_add")
    /\ LET q == requests[r]
       IN payments' = Append(payments,
              [customer |-> q.name, amount |-> q.amount,
               previous_balance |-> q.current_balance,
               new_balance |-> PaymentNewBalance(q.current_balance, q.amount)])
    /\ requests' = [requests EXCEPT ![r].pc = "cust_query"]
    /\ UNCHANGED <<customers, debtors, sales, nextSale, point_history, orders, now,
                   resp, probe, session, clock, seen, swept>>

(* The answer of a request that ran to its end *)
Answer(q) ==
    IF q.kind = "sale" THEN Success
    ELSE [Success EXCEPT
             !.paid_in_full = (PaymentNewBalance(q.current_balance, q.amount) = 0)]

(* for c in customers.where('name', '==', name).limit(1).stream(): the *)
(* read, and new_debt and new_points worked out from it                *)
cust_query(r) ==
    /\ Running(r) /\ requests[r].pc = "cust_query"
    /\ LET q == requests[r]
       IN IF FirstByName(q.name) = {}
          THEN /\ requests' = [requests EXCEPT ![r].pc = "done"]
               /\ resp' = Answer(q)
          ELSE LET phone == CHOOSE p \in FirstByName(q.name) : TRUE
                   c == customers[phone]
               IN /\ requests' = [requests EXCEPT
                         ![r].phone = phone,
                         ![r].debt_read = c.current_debt,
                         ![r].points_read = c.loyalty_points,
                         ![r].new_debt =
                             IF q.kind = "sale" THEN c.current_debt + q.price
                             ELSE Max(0, c.current_debt - q.amount),
                         ![r].new_points =
                             IF q.kind = "sale"
                             THEN c.loyalty_points + SalePoints(q.sticks)
                             ELSE c.loyalty_points + PAYMENT_BONUS,
                         ![r].pc = "cust_write"]
                  /\ UNCHANGED resp
    /\ UNCHANGED <<customers, debtors, sales, nextSale, payments, point_history,
                   orders, now, probe, session, clock, seen, swept>>

(* Mutant: the update made in a transaction, on what the store holds now *)
CustomerWritten_Transactional(c, q, t) ==
    IF q.kind = "sale"
    THEN [c EXCEPT !.current_debt = @ + q.price,
                   !.loyalty_points = @ + SalePoints(q.sticks)]
    ELSE [c EXCEPT !.current_debt = Max(0, @ - q.amount),
                   !.loyalty_points = @ + PAYMENT_BONUS,
                   !.last_debt_check = t,
                   !.debt_at_last_check = Max(0, c.current_debt - q.amount)]

(* customers.document(phone).update({'current_debt': new_debt, ...}) *)
CustomerWritten(c, q, t) ==
    IF q.kind = "sale"
    THEN [c EXCEPT !.current_debt = q.new_debt,
                   !.loyalty_points = q.new_points]
    ELSE [c EXCEPT !.current_debt = q.new_debt,
                   !.loyalty_points = q.new_points,
                   !.last_debt_check = t,
                   !.debt_at_last_check = q.new_debt]

cust_write(r) ==
    /\ Running(r) /\ requests[r].pc = "cust_write"
    /\ customers' = [customers EXCEPT ![requests[r].phone] =
                         CustomerWritten(@, requests[r], now)]
    /\ requests' = [requests EXCEPT ![r].pc = "log"]
    /\ UNCHANGED <<debtors, sales, nextSale, payments, point_history, orders, now,
                   resp, probe, session, clock, seen, swept>>

(* db.collection('point_history').add(...) *)
log_points(r) ==
    /\ Running(r) /\ requests[r].pc = "log"
    /\ LET q == requests[r]
       IN point_history' =
              IF q.kind = "sale" THEN point_history \o SaleHistory(q.phone, q.sticks)
              ELSE Append(point_history,
                       [customer_phone |-> q.phone, change |-> PAYMENT_BONUS,
                        reason |-> "Payment"])
    /\ requests' = [requests EXCEPT ![r].pc = "tier"]
    /\ UNCHANGED <<customers, debtors, sales, nextSale, payments, orders, now, resp,
                   probe, session, clock, seen, swept>>

(* update_customer_tier(customers.document(phone), new_points), and the *)
(* answer                                                               *)
tier_write(r) ==
    /\ Running(r) /\ requests[r].pc = "tier"
    /\ customers' = [customers EXCEPT ![requests[r].phone] =
                         update_customer_tier(@, requests[r].new_points)]
    /\ requests' = [requests EXCEPT ![r].pc = "done"]
    /\ resp' = Answer(requests[r])
    /\ UNCHANGED <<debtors, sales, nextSale, payments, point_history, orders, now,
                   probe, session, clock, seen, swept>>

(* Mutant: the sale of a failed request is taken back *)
SalesAfterFailure_RolledBack(r) ==
    IF requests[r].kind = "sale" THEN Remove(sales, requests[r].sale_id) ELSE sales

(* Neither handler catches an exception or undoes what it wrote *)
SalesAfterFailure(r) == sales

(* The next store call of a request raises (the store is unreachable, the *)
(* deadline passed)                                                       *)
store_failure(r) ==
    /\ Running(r)
    /\ requests' = Raise(r)
    /\ sales' = SalesAfterFailure(r)
    /\ resp' = ServerError
    /\ UNCHANGED <<customers, debtors, nextSale, payments, point_history, orders,
                   now, probe, session, clock, seen, swept>>

----------------------------------------------------------------------------
(* Sessions.  `session` is the cookie of one browser; the operator and a   *)
(* customer may both log in from it.  The other requests of the model come *)
(* from other browsers.                                                    *)

(* A session without 'user', 'customer_phone' or 'last_active' *)
NoSession == [user |-> "", customer_phone |-> "", last_active |-> -1]

(* /login: `ok` says whether the users document has this password *)
login(username, ok) ==
    /\ IF ok
       THEN /\ session' = [session EXCEPT !.user = username, !.last_active = clock]
            /\ resp' = Success
       ELSE /\ resp' = Failure
            /\ UNCHANGED session
    /\ UNCHANGED <<customers, debtors, sales, nextSale, payments, point_history,
                   orders, now, probe, clock, requests, seen, swept>>

(* /logout *)
logout ==
    /\ session' = NoSession
    /\ resp' = Redirect
    /\ UNCHANGED <<customers, debtors, sales, nextSale, payments, point_history,
                   orders, now, probe, clock, requests, seen, swept>>

(* /customer/login: `ok` says whether the password matches password_hash *)
customer_login(phone, ok) ==
    /\ IF phone \in DOMAIN customers /\ ok /\ customers[phone].approved
       THEN /\ session' = [session EXCEPT !.customer_phone = phone]
            /\ seen' = clock
            /\ resp' = Success
       ELSE /\ resp' = Failure
            /\ UNCHANGED <<session, seen>>
    /\ UNCHANGED <<customers, debtors, sales, nextSale, payments, point_history,
                   orders, now, probe, clock, requests, swept>>

(* /customer/logout *)
customer_logout ==
    /\ session' = [session EXCEPT !.customer_phone = ""]
    /\ resp' = Redirect
    /\ UNCHANGED <<customers, debtors, sales, nextSale, payments, point_history,
                   orders, now, probe, clock, requests, seen, swept>>

(* last_active and datetime.now() > fromisoformat(last_active) + SESSION_TIMEOUT *)
SessionExpired(last_active, t) ==
    last_active # -1 /\ t > last_active + SESSION_TIMEOUT

(* @login_required on a handler f that answers `answer` *)
login_required(answer) ==
    /\ IF session.user = ""
       THEN /\ resp' = Redirect
            /\ UNCHANGED session
       ELSE IF SessionExpired(session.last_active, clock)
            THEN /\ session' = NoSession
                 /\ resp' = Redirect
            ELSE /\ session' = [session EXCEPT !.last_active = clock]
                 /\ resp' = answer
    /\ UNCHANGED <<customers, debtors, sales, nextSale, payments, point_history,
                   orders, now, probe, clock, requests, seen, swept>>

(* @customer_login_required on a handler f that answers `answer` *)
customer_login_required(answer) ==
    /\ IF session.customer_phone = ""
       THEN /\ resp' = Redirect
            /\ UNCHANGED seen
       ELSE /\ resp' = answer
            /\ seen' = clock
    /\ UNCHANGED <<customers, debtors, sales, nextSale, payments, point_history,
                   orders, now, probe, session, clock, requests,
                   swept>>

(* GET /customers and GET /customer/dashboard: pages that read the store *)
view_customers == login_required(Page)
customer_dashboard == customer_login_required(Page)

(* Minutes pass *)
Wait(d) ==
    /\ clock + d <= MaxMinute
    /\ clock' = clock + d
    /\ UNCHANGED <<customers, debtors, sales, nextSale, payments, point_history,
                   orders, now, resp, probe, session, requests, seen,
                   swept>>

----------------------------------------------------------------------------
(* The clock *)

Tick(d) ==
    /\ now + d <= MaxDay
    /\ now' = now + d
    /\ UNCHANGED <<customers, debtors, sales, nextSale, payments, point_history,
                   orders, resp, probe, session, clock, requests, seen,
                   swept>>

----------------------------------------------------------------------------
(* The system *)

Item(type, qty) == [type |-> type, qty |-> qty]
OrderItems == {<<>>, <<Item("pack", 1)>>, <<Item("pack", 1), Item("loose", 1)>>}

NoProbe == [points |-> 0, tier |-> "none", limit |-> 0]

(* No sweep has run *)
NoSweep == [customers |-> <<>>, point_history |-> <<>>, now |-> -1, rerun |-> FALSE]

Init ==
    /\ customers = <<>>
    /\ debtors = <<>>
    /\ sales = <<>>
    /\ nextSale = 1
    /\ payments = <<>>
    /\ point_history = <<>>
    /\ orders = <<>>
    /\ now = 0
    /\ resp = Success
    /\ probe = NoProbe
    /\ session = NoSession
    /\ clock = 0
    /\ requests = <<>>
    /\ seen = -1
    /\ swept = NoSweep

(* The dashboard loaded, without the history of the sweep and with it: the *)
(* store and the clock as the sweep leaves them, and whether the sweep ran *)
(* on what the sweep before it had left                                    *)
JustSwept ==
    /\ swept.now = now
    /\ swept.customers = customers
    /\ swept.point_history = point_history
LoadDashboard == dashboard /\ UNCHANGED swept
LoadDashboardRecorded ==
    /\ dashboard
    /\ swept' = [customers |-> customers', point_history |-> point_history',
                 now |-> now, rerun |-> JustSwept]

(* The requests of one customer, "alice" on the first phone, and of the *)
(* operator about her.                                                  *)
Registration == customer_register("alice", PhoneIds[1])
Approval == approve_customer(PhoneIds[1])
ToggleCredit == \E enabled \in BOOLEAN : toggle_credit(PhoneIds[1], enabled)
SaleQtys == {-1, 1}
PayAmounts == {-150, 150, 4000}
Sell ==
    \E item \in Items, method \in Methods, qty \in SaleQtys :
        process_sale(item, method, qty, "alice")
Pay == \E amount \in PayAmounts : record_payment("alice", amount)
Delete == \E id \in 1..MaxDocs : delete_transaction(id)
Clock == \E d \in TickDays : Tick(d)

(* The ledger: sales, payments and reversals *)
Next == Registration \/ Approval \/ Sell \/ Pay \/ Delete

Spec == Init /\ [][Next]_vars

(* The ledger under the overdue sweep and the clock *)
SweepQtys == {-1, 1}
SweepAmounts == {2500, 4000}
SellOnCredit ==
    \E item \in Items, qty \in SweepQtys : process_sale(item, "credit", qty, "alice")
PayPart == \E amount \in SweepAmounts : record_payment("alice", amount)

NextSweep ==
    \/ Registration \/ Approval \/ SellOnCredit \/ PayPart \/ LoadDashboard
    \/ Clock

SpecSweep == Init /\ [][NextSweep]_vars

(* The same, with the history of the sweeps *)
SellOneOnCredit == \E item \in Items : process_sale(item, "credit", 1, "alice")

NextResweep ==
    \/ Registration \/ Approval \/ SellOneOnCredit \/ PayPart
    \/ LoadDashboardRecorded \/ Clock

SpecResweep == Init /\ [][NextResweep]_vars

(* Everything that changes a customer's points: many packs at once take *)
(* the points across the tier thresholds.                               *)
SellPacks == \E qty \in {1, 49} : process_sale("pack", "credit", qty, "alice")
PayOff == \E amount \in {4000} : record_payment("alice", amount)
CreateOrder ==
    \E items \in {<<>>, <<Item("pack", 1)>>}, method \in Methods :
        customer_create_order(PhoneIds[1], items, method)
UpdateOrder ==
    \E id \in 1..MaxDocs, status \in {"completed", "rejected"} :
        update_order_status(id, status)

NextLoyalty ==
    \/ Registration \/ Approval \/ ToggleCredit \/ SellPacks \/ PayOff
    \/ CreateOrder \/ UpdateOrder \/ LoadDashboard \/ Clock

SpecLoyalty == Init /\ [][NextLoyalty]_vars

(* Everything that changes a customer's points, after the operator has *)
(* set the credit limit by hand                                        *)
ManualLimits == {150}
UpdateLimit == \E limit \in ManualLimits : update_credit_limit(PhoneIds[1], limit)

NextOverride ==
    \/ Registration \/ Approval \/ ToggleCredit \/ UpdateLimit \/ SellPacks
    \/ PayOff \/ CreateOrder \/ UpdateOrder \/ LoadDashboard \/ Clock

SpecOverride == Init /\ [][NextOverride]_vars

(* The orders of a customer, from placing to completion, with the payment *)
(* and the reversal of the sales they become                             *)
PlaceOrder ==
    \E items \in OrderItems, method \in Methods :
        customer_create_order(PhoneIds[1], items, method)
SetOrderStatus ==
    \E id \in 1..MaxDocs, status \in Statuses : update_order_status(id, status)

EnableCredit == toggle_credit(PhoneIds[1], TRUE)

NextOrders ==
    \/ Registration \/ Approval \/ EnableCredit \/ PlaceOrder \/ SetOrderStatus
    \/ PayOff \/ Delete

SpecOrders == Init /\ [][NextOrders]_vars

(* Credit sales and payments for "alice" served at the same time, with *)
(* store failures, after the sales served before them                  *)
RaceAmounts == {150, 4000}
EarlierSale == requests = <<>> /\ process_sale("pack", "credit", 1, "alice")
StartSale == \E r \in Requests, item \in Items : sale_add(r, item, 1, "alice")
StartPayment ==
    \E r \in Requests, amount \in RaceAmounts : payment_debtor_get(r, "alice", amount)
SaleStep == \E r \in Requests : sale_debtor_get(r) \/ sale_debtor_write(r)
PaymentStep == \E r \in Requests : payment_debtor_write(r) \/ payment_add(r)
CustomerStep ==
    \E r \in Requests : cust_query(r) \/ cust_write(r) \/ log_points(r) \/ tier_write(r)
StoreFailure == \E r \in Requests : store_failure(r)

NextRace ==
    \/ Registration \/ EarlierSale \/ StartSale \/ StartPayment \/ SaleStep
    \/ PaymentStep \/ CustomerStep \/ StoreFailure

SpecRace == Init /\ [][NextRace]_vars

(* One browser: the operator and the customer "alice" log in, ask for *)
(* pages and leave, while minutes pass                               *)
WaitMinutes == {15, 16}
OperatorLogin == \E ok \in BOOLEAN : login("admin", ok)
CustomerLogin == \E ok \in BOOLEAN : customer_login(PhoneIds[1], ok)
Minutes == \E d \in WaitMinutes : Wait(d)

NextSession ==
    \/ Registration \/ Approval \/ OperatorLogin \/ logout \/ CustomerLogin
    \/ customer_logout \/ view_customers \/ customer_dashboard \/ Minutes

SpecSession == Init /\ [][NextSession]_vars

(* The pricing of sales: any item, method and quantity *)
PriceQtys == {-1, 0, 2}
PriceNames == {"alice"}
SellAny ==
    \E item \in Items, method \in Methods, qty \in PriceQtys, name \in PriceNames :
        process_sale(item, method, qty, name)

NextPrice == Registration \/ SellAny

SpecPrice == Init /\ [][NextPrice]_vars

(* The risk level on its own: the totals are counted in steps of 0.50, up *)
(* to MaxTotal steps, with the totals 1000.00 and 700.00 added           *)
MaxTotal == 20
RiskTotals == {50 * k : k \in (-1..MaxTotal) \cup {1400, 2000}}

InitRisk ==
    /\ Init!1 /\ Init!2 /\ Init!3 /\ Init!4 /\ Init!5 /\ Init!6 /\ Init!7
    /\ Init!8 /\ Init!9 /\ Init!11 /\ Init!12 /\ Init!13
    /\ Init!14 /\ Init!15
    /\ probe \in {[cash_total |-> a, credit_total |-> b, risk_level |-> "none"] :
                     a \in RiskTotals, b \in RiskTotals}

Assess ==
    /\ probe.risk_level = "none"
    /\ probe' = [probe EXCEPT
                     !.risk_level = RiskLevel(probe.cash_total, probe.credit_total)]
    /\ UNCHANGED <<customers, debtors, sales, nextSale, payments, point_history,
                   orders, now, resp, session, clock, requests, seen,
                   swept>>

SpecRisk == InitRisk /\ [][Assess]_vars

(* calculate_tier on its own *)
MaxPoints == 130

InitTier ==
    /\ Init!1 /\ Init!2 /\ Init!3 /\ Init!4 /\ Init!5 /\ Init!6 /\ Init!7
    /\ Init!8 /\ Init!9 /\ Init!11 /\ Init!12 /\ Init!13
    /\ Init!14 /\ Init!15
    /\ probe \in {[points |-> n, tier |-> "none", limit |-> 0] : n \in -3..MaxPoints}

Classify ==
    /\ probe.tier = "none"
    /\ probe' = [points |-> probe.points,
                 tier |-> calculate_tier(probe.points).name,
                 limit |-> calculate_tier(probe.points).limit]
    /\ UNCHANGED <<customers, debtors, sales, nextSale, payments, point_history,
                   orders, now, resp, session, clock, requests, seen,
                   swept>>

SpecTier == InitTier /\ [][Classify]_vars

----------------------------------------------------------------------------
(* The claims *)

Alice == PhoneIds[1]
Balance(name) == IF name \in DOMAIN debtors THEN debtors[name].balance ELSE 0
Floor0(x) == IF x > 0 THEN x ELSE 0
Registered == Alice \in DOMAIN customers /\ customers[Alice].name = "alice"

(* C1: between operations every debtor balance is >= 0, and a debtor record *)
(* exists only with a strictly positive balance (no record means balance 0) *)
C1_DebtorBalancePositive ==
    \A n \in DOMAIN debtors : debtors[n].balance > 0

(* C2: a credit sale for the name of a registered customer adds the sale's  *)
(* price to the debtor balance (a new debtor record gets trust_score 50)    *)
(* and to current_debt, adds sticks // 20 to loyalty_points, and so awards  *)
(* no points to a sale of fewer than 20 sticks                              *)
C2_CreditSaleEffect ==
    [][\A item \in Items, qty \in SaleQtys :
        (process_sale(item, "credit", qty, "alice") /\ Registered) =>
            LET price == sales'[nextSale].price
                sticks == sales'[nextSale].qty
            IN /\ "alice" \in DOMAIN debtors'
               /\ debtors'["alice"].balance = Balance("alice") + price
               /\ ("alice" \notin DOMAIN debtors =>
                       debtors'["alice"].trust_score = 50)
               /\ customers'[Alice].current_debt
                      = customers[Alice].current_debt + price
               /\ customers'[Alice].loyalty_points
                      = customers[Alice].loyalty_points + (sticks \div 20)
               /\ (sticks < 20 =>
                       customers'[Alice].loyalty_points
                           = customers[Alice].loyalty_points)]_vars

(* C3: a payment of a on a debtor with balance b leaves max(0, b - a); at 0 *)
(* the record is deleted, never stored with 0 or less, and the response     *)
(* says paid_in_full exactly then                                           *)
C3_PaymentFloorsAndDeletes ==
    [][\A a \in PayAmounts :
        (record_payment("alice", a) /\ "alice" \in DOMAIN debtors) =>
            LET left == Floor0(debtors["alice"].balance - a)
            IN /\ resp'.code = 200
               /\ resp'.paid_in_full = (left = 0)
               /\ left = 0 => "alice" \notin DOMAIN debtors'
               /\ left # 0 => /\ "alice" \in DOMAIN debtors'
                              /\ debtors'["alice"].balance = left]_vars

C3_Witness_OverpaymentDeletes ==
    /\ payments # <<>>
    /\ payments[Len(payments)].amount > payments[Len(payments)].previous_balance
    /\ payments[Len(payments)].previous_balance > 0
    /\ "alice" \notin DOMAIN debtors
    /\ resp.paid_in_full

(* C5: deleting a credit sale removes it and takes its price off the debtor *)
(* balance, floored at 0 and deleting the debtor at 0; no customer's points *)
(* or tier change; deleting a cash sale changes no debtor record            *)
C5_DeletionReversesDebtOnly ==
    [][\A id \in 1..MaxDocs :
        (delete_transaction(id) /\ id \in DOMAIN sales) =>
            LET sale == sales[id]
                left == Floor0(Balance(sale.customer) - sale.price)
            IN /\ sales' = [x \in DOMAIN sales \ {id} |-> sales[x]]
               /\ \A p \in DOMAIN customers :
                      /\ p \in DOMAIN customers'
                      /\ customers'[p].loyalty_points = customers[p].loyalty_points
                      /\ customers'[p].tier = customers[p].tier
               /\ sale.method = "cash" => debtors' = debtors
               /\ (sale.method = "credit" /\ sale.customer \in DOMAIN debtors) =>
                      /\ left = 0 => sale.customer \notin DOMAIN debtors'
                      /\ left # 0 => /\ sale.customer \in DOMAIN debtors'
                                     /\ debtors'[sale.customer].balance = left
               /\ (sale.method = "credit" /\ sale.customer \notin DOMAIN debtors) =>
                      debtors' = debtors]_vars

C5_Witness_PointsKeptAfterReversal ==
    /\ nextSale > 1
    /\ DOMAIN sales = {}
    /\ payments = <<>>
    /\ "alice" \notin DOMAIN debtors
    /\ Registered
    /\ customers[Alice].loyalty_points > 0

(* C4: a successful payment under a registered customer's name adds 5       *)
(* points whatever the amount, leaves current_debt = max(0, debt - amount), *)
(* and sets last_debt_check = now and debt_at_last_check = the new debt     *)
C4_PaymentBonusAndBaseline ==
    [][\A a \in SweepAmounts :
        (record_payment("alice", a) /\ "alice" \in DOMAIN debtors /\ Registered) =>
            LET c == customers[Alice]
                d == customers'[Alice]
            IN /\ resp'.code = 200
               /\ d.loyalty_points = c.loyalty_points + 5
               /\ d.current_debt = Floor0(c.current_debt - a)
               /\ d.last_debt_check = now
               /\ d.debt_at_last_check = d.current_debt]_vars

C4_Witness_BaselineReset ==
    /\ Registered
    /\ point_history # <<>>
    /\ point_history[Len(point_history)].reason = "Payment"
    /\ now > 0
    /\ customers[Alice].last_debt_check = now
    /\ customers[Alice].current_debt > 0
    /\ customers[Alice].debt_at_last_check = customers[Alice].current_debt

(* C6: calculate_tier gives "trusted" / 120 from 100 points, "regular" /   *)
(* 100 from 50 to 99 points, and "new" / 80 below 50 points                 *)
C6_TierTable ==
    probe.tier # "none" =>
        /\ probe.points >= 100 => probe.tier = "trusted" /\ probe.limit = 120
        /\ (probe.points >= 50 /\ probe.points < 100) =>
               probe.tier = "regular" /\ probe.limit = 100
        /\ probe.points < 50 => probe.tier = "new" /\ probe.limit = 80

C6_Witness_Boundary ==
    probe.points = 100 /\ probe.tier = "trusted" /\ probe.limit = 120

(* C7: between requests every customer's stored tier is the tier of the     *)
(* stored loyalty_points                                                    *)
C7_StoredTierFollowsPoints ==
    \A p \in DOMAIN customers :
        LET c == customers[p]
        IN /\ c.tier = "trusted" <=> c.loyalty_points >= 100
           /\ c.tier = "regular" <=> (c.loyalty_points >= 50 /\ c.loyalty_points < 100)
           /\ c.tier = "new" <=> c.loyalty_points < 50

C7_Witness_FlipToRegular ==
    /\ Registered
    /\ customers[Alice].loyalty_points = 50
    /\ customers[Alice].tier = "regular"
    /\ customers[Alice].credit_limit = 100
    /\ \E i \in DOMAIN point_history :
           point_history[i].reason = "Purchase" /\ point_history[i].change = 1

(* The point_history entries a step adds *)
NewEntries == SubSeq(point_history', Len(point_history) + 1, Len(point_history'))
Logged(p, reason) ==
    \E i \in DOMAIN NewEntries :
        NewEntries[i] = [customer_phone |-> p, change |-> -2, reason |-> reason]
LoggedCount(p) ==
    Cardinality({i \in DOMAIN NewEntries :
                    NewEntries[i].customer_phone = p /\ NewEntries[i].change = -2})

(* C8: a sweep takes 2 points (floored at 0) from an approved customer in   *)
(* debt whose last_debt_check is 28 days old or more, logs a -2 entry and   *)
(* sets last_debt_check to now; under 28 days this check does nothing       *)
C8_FourWeekPenalty ==
    [][dashboard =>
        \A p \in DOMAIN customers :
            LET c == customers[p]
                d == customers'[p]
            IN (c.approved /\ c.current_debt # 0) =>
                   IF now - c.last_debt_check >= 28
                   THEN /\ d.loyalty_points = Floor0(c.loyalty_points - 2)
                        /\ Logged(p, "4 weeks overdue")
                        /\ d.last_debt_check = now
                   ELSE /\ ~Logged(p, "4 weeks overdue")
                        /\ d.last_debt_check = c.last_debt_check
                        /\ (d.loyalty_points # c.loyalty_points =>
                                Logged(p, "Debt increased"))]_vars

C8_Witness_Penalised ==
    /\ Registered
    /\ now = 28
    /\ customers[Alice].last_debt_check = 28
    /\ customers[Alice].loyalty_points = 3
    /\ point_history # <<>>
    /\ point_history[Len(point_history)] =
           [customer_phone |-> Alice, change |-> -2, reason |-> "4 weeks overdue"]

(* The debt grew by a tenth of the baseline or more *)
GrewTenPercent(c) ==
    10 * (c.current_debt - c.debt_at_last_check) >= c.debt_at_last_check

(* C9: with a baseline above 0, a sweep takes 2 points (floored at 0), logs *)
(* an entry and moves the baseline to current_debt exactly when the debt    *)
(* grew by 10% of the baseline or more; with a baseline of 0 it does not    *)
C9_DebtIncreasePenalty ==
    [][dashboard =>
        \A p \in DOMAIN customers :
            LET c == customers[p]
                d == customers'[p]
            IN (c.approved /\ c.current_debt # 0) =>
                   /\ (c.debt_at_last_check > 0 /\ GrewTenPercent(c)) =>
                          /\ d.loyalty_points = Floor0(c.loyalty_points - 2)
                          /\ Logged(p, "Debt increased")
                          /\ d.debt_at_last_check = c.current_debt
                   /\ (c.debt_at_last_check > 0 /\ ~GrewTenPercent(c)) =>
                          /\ ~Logged(p, "Debt increased")
                          /\ d.debt_at_last_check = c.debt_at_last_check
                          /\ (d.loyalty_points # c.loyalty_points =>
                                  Logged(p, "4 weeks overdue"))
                   /\ c.debt_at_last_check = 0 =>
                          /\ ~Logged(p, "Debt increased")
                          /\ d.debt_at_last_check = 0]_vars

C9_Witness_BaselineMoved ==
    /\ Registered
    /\ customers[Alice].current_debt = 1650
    /\ customers[Alice].debt_at_last_check = 1650
    /\ point_history # <<>>
    /\ point_history[Len(point_history)] =
           [customer_phone |-> Alice, change |-> -2, reason |-> "Debt increased"]

(* C10: when both checks fire in one sweep for a customer with 4 points or  *)
(* more, the customer ends the sweep 4 points down, with two entries logged *)
C10_BothPenaltiesAddUp ==
    [][dashboard =>
        \A p \in DOMAIN customers :
            LET c == customers[p]
                d == customers'[p]
            IN (/\ c.approved /\ c.current_debt # 0
                /\ now - c.last_debt_check >= 28
                /\ c.debt_at_last_check > 0 /\ GrewTenPercent(c)
                /\ c.loyalty_points >= 4) =>
                   /\ LoggedCount(p) = 2
                   /\ d.loyalty_points = c.loyalty_points - 4]_vars

(* C11: a sale is priced by the pricing rule: loose is 1.50 a stick and qty *)
(* sticks whatever the method; a pack is 30.00 cash, 40.00 on credit, and   *)
(* 20 sticks; the stored sale carries that price and that stick count       *)
C11_PricingRule ==
    [][\A item \in Items, method \in Methods, qty \in PriceQtys, name \in PriceNames :
        process_sale(item, method, qty, name) =>
            LET sale == sales'[nextSale]
            IN /\ nextSale \notin DOMAIN sales
               /\ sale.method = method /\ sale.customer = name
               /\ item = "loose" => sale.price = 150 * qty /\ sale.qty = qty
               /\ (item = "pack" /\ method = "cash") =>
                      sale.price = 3000 * qty /\ sale.qty = 20 * qty
               /\ (item = "pack" /\ method = "credit") =>
                      sale.price = 4000 * qty /\ sale.qty = 20 * qty]_vars

C11_Witness_CreditPacks ==
    \E id \in DOMAIN sales :
        /\ sales[id].item_type = "pack" /\ sales[id].method = "credit"
        /\ sales[id].price = 8000 /\ sales[id].qty = 40

(* C12: loyalty points are never negative: every customer's                *)
(* loyalty_points is >= 0 in every reachable state                         *)
C12_PointsNonNegative ==
    \A p \in DOMAIN customers : customers[p].loyalty_points >= 0

(* The collections of the store *)
Store == <<debtors, customers, payments, sales, orders, point_history>>

(* C13: a payment for a name without debtor record, a status for an        *)
(* unknown order id and the deletion of an unknown transaction id each     *)
(* answer an error with status 404 and leave every collection unchanged    *)
C13_MissingRecordIs404 ==
    [][/\ \A a \in {4000} :
            (record_payment("alice", a) /\ "alice" \notin DOMAIN debtors) =>
                /\ resp'.code = 404 /\ resp'.status = "error"
                /\ UNCHANGED Store
       /\ \A id \in 1..MaxDocs, st \in Statuses :
            (update_order_status(id, st) /\ id \notin DOMAIN orders) =>
                /\ resp'.code = 404 /\ resp'.status = "error"
                /\ UNCHANGED Store
       /\ \A id \in 1..MaxDocs :
            (delete_transaction(id) /\ id \notin DOMAIN sales) =>
                /\ resp'.code = 404 /\ resp'.status = "error"
                /\ UNCHANGED Store]_vars

C13_Witness_NotFoundAnswered ==
    /\ resp.code = 404 /\ resp.status = "error"
    /\ Registered
    /\ DOMAIN orders # {}
    /\ DOMAIN sales = {}
    /\ "alice" \notin DOMAIN debtors

(* C16: setting an order to 'completed' adds one sale with the order's     *)
(* total_sticks, total and payment method, and for a credit order raises   *)
(* the debtor balance and the customer's current_debt by the total and     *)
(* their points by total_sticks // 20; any other status adds no sale and   *)
(* changes no debtor or customer record                                    *)
C16_CompletionCreatesSale ==
    [][\A id \in 1..MaxDocs, st \in Statuses :
        (update_order_status(id, st) /\ id \in DOMAIN orders) =>
            LET o == orders[id]
                name == o.customer_name
                phone == o.customer_phone
            IN IF st = "completed"
               THEN /\ nextSale \notin DOMAIN sales
                    /\ DOMAIN sales' = DOMAIN sales \cup {nextSale}
                    /\ \A x \in DOMAIN sales : sales'[x] = sales[x]
                    /\ sales'[nextSale].qty = o.total_sticks
                    /\ sales'[nextSale].price = o.total
                    /\ sales'[nextSale].method = o.payment_method
                    /\ o.payment_method = "credit" =>
                           /\ name \in DOMAIN debtors'
                           /\ debtors'[name].balance = Balance(name) + o.total
                           /\ customers'[phone].current_debt
                                  = customers[phone].current_debt + o.total
                           /\ customers'[phone].loyalty_points
                                  = customers[phone].loyalty_points
                                    + (o.total_sticks \div 20)
               ELSE /\ sales' = sales
                    /\ debtors' = debtors
                    /\ customers' = customers]_vars

C16_Witness_CreditOrderCompleted ==
    /\ Registered
    /\ \E id \in DOMAIN sales :
           /\ sales[id].from_order # 0
           /\ sales[id].method = "credit"
           /\ sales[id].qty = 21
           /\ orders[sales[id].from_order].status = "completed"
    /\ customers[Alice].loyalty_points = 1
    /\ customers[Alice].current_debt = 4150
    /\ Balance("alice") = 4150

(* C14: two requests for the same customer can lose an update: a request   *)
(* writes the customer's debt and points, and the balance of a debtor it   *)
(* did not find or is paying, from what it read, whatever another request  *)
(* has stored since; the witness is a state where two finished credit      *)
(* sales left the debt, the points and the balance of one                  *)
C14_WritesFromOwnRead ==
    [][\A r \in Requests :
        /\ cust_write(r) =>
               LET q == requests[r]
                   d == customers'[q.phone]
               IN IF q.kind = "sale"
                  THEN /\ d.current_debt = q.debt_read + q.price
                       /\ d.loyalty_points = q.points_read + (q.sticks \div 20)
                  ELSE /\ d.current_debt = Floor0(q.debt_read - q.amount)
                       /\ d.loyalty_points = q.points_read + 5
        /\ (sale_debtor_write(r) /\ ~requests[r].exists) =>
               debtors'[requests[r].name].balance = requests[r].price
        /\ (payment_debtor_write(r) /\ requests'[r].pc # "failed") =>
               LET q == requests[r]
                   left == Floor0(q.current_balance - q.amount)
               IN /\ left = 0 => q.name \notin DOMAIN debtors'
                  /\ left # 0 => debtors'[q.name].balance = left]_vars

C14_Witness_LostUpdate ==
    /\ DOMAIN requests = {"r1", "r2"}
    /\ \A r \in DOMAIN requests :
           /\ requests[r].kind = "sale" /\ requests[r].pc = "done"
           /\ requests[r].price = 4000 /\ requests[r].phone = Alice
    /\ DOMAIN sales = {1, 2}
    /\ Balance("alice") = 4000
    /\ customers[Alice].current_debt = 4000
    /\ customers[Alice].loyalty_points = 1

(* C19: a failure of the store in the middle of a request undoes nothing:  *)
(* a credit sale that fails after its sale record is added leaves the sale *)
(* in the store and the debtor and customer records without it             *)
C19_FailureUndoesNothing ==
    [][\A r \in Requests :
        store_failure(r) =>
            /\ UNCHANGED Store
            /\ resp'.code = 500
            /\ requests[r].kind = "sale" =>
                   /\ requests[r].sale_id \in DOMAIN sales'
                   /\ sales'[requests[r].sale_id].price = requests[r].price]_vars

C19_Witness_SaleWithoutDebt ==
    /\ Registered
    /\ DOMAIN requests = {"r1"}
    /\ requests["r1"].kind = "sale" /\ requests["r1"].pc = "failed"
    /\ requests["r1"].failed_at \in {"debtor_get", "debtor_write"}
    /\ DOMAIN sales = {1}
    /\ sales[1].method = "credit" /\ sales[1].customer = "alice"
    /\ sales[1].price = 4000
    /\ "alice" \notin DOMAIN debtors
    /\ customers[Alice].current_debt = 0
    /\ customers[Alice].loyalty_points = 0

(* C15: a request to a route that asks for a session, arriving more than   *)
(* 30 minutes after the session's last activity, clears the session and is *)
(* redirected to login without running the handler; one within 30 minutes  *)
(* runs the handler and makes now the last activity; for the operator's    *)
(* session and for the customer's                                          *)
C15_SessionsExpire ==
    [][/\ (view_customers /\ session.user # "") =>
            IF clock - session.last_active > 30
            THEN /\ session' = NoSession
                 /\ resp' = Redirect
            ELSE /\ resp' = Page
                 /\ session'.last_active = clock
                 /\ session'.user = session.user
       /\ (customer_dashboard /\ session.customer_phone # "") =>
            IF clock - seen > 30
            THEN /\ session' = NoSession
                 /\ resp' = Redirect
            ELSE /\ resp' = Page
                 /\ seen' = clock
                 /\ session'.customer_phone = session.customer_phone]_vars

(* The operator's half of C15, which holds *)
C15_OperatorSessionExpires ==
    [][(view_customers /\ session.user # "") =>
            IF clock - session.last_active > 30
            THEN /\ session' = NoSession
                 /\ resp' = Redirect
            ELSE /\ resp' = Page
                 /\ session'.last_active = clock
                 /\ session'.user = session.user]_vars

(* C17: with cash_total > 0 the risk level is HIGH when credit_total /      *)
(* cash_total > 0.6, MEDIUM when it is > 0.3 and <= 0.6, else SAFE; with    *)
(* cash_total 0 it is HIGH when credit_total > 0 and SAFE otherwise; cash   *)
(* 1000 with credit 700 gives HIGH, a ratio of exactly 0.6 MEDIUM and of    *)
(* exactly 0.3 SAFE                                                         *)
C17_RiskLevel ==
    probe.risk_level # "none" =>
        LET cash == probe.cash_total
            credit == probe.credit_total
            risk == probe.risk_level
        IN /\ cash > 0 =>
                  /\ risk = "HIGH" <=> 5 * credit > 3 * cash
                  /\ risk = "MEDIUM" <=> (5 * credit <= 3 * cash /\ 10 * credit > 3 * cash)
                  /\ risk = "SAFE" <=> 10 * credit <= 3 * cash
           /\ cash = 0 => risk = (IF credit > 0 THEN "HIGH" ELSE "SAFE")
           /\ (cash = 100000 /\ credit = 70000) => risk = "HIGH"
           /\ (cash = 500 /\ credit = 300) => risk = "MEDIUM"
           /\ (cash = 500 /\ credit = 150) => risk = "SAFE"

C17_Witness_RatioSixTenths ==
    probe.cash_total = 500 /\ probe.credit_total = 300 /\ probe.risk_level = "MEDIUM"

(* The default limit of the tier of p points *)
DefaultLimit(p) == IF p >= 100 THEN 120 ELSE IF p >= 50 THEN 100 ELSE 80

(* The customer's limit is the default of their tier, tier_override stays *)
LimitOverwritten ==
    /\ customers'[Alice].credit_limit
           = DefaultLimit(customers'[Alice].loyalty_points)
    /\ customers'[Alice].tier_override

(* C18: after update_credit_limit has set a limit with tier_override true, *)
(* the next credit sale, payment, order completion or overdue penalty of   *)
(* that customer overwrites credit_limit with the default limit of the     *)
(* tier of the new points and leaves tier_override true                    *)
C18_OverrideNotProtected ==
    [][(Registered /\ customers[Alice].tier_override) =>
        /\ \A qty \in {1, 49} :
               process_sale("pack", "credit", qty, "alice") => LimitOverwritten
        /\ (record_payment("alice", 4000) /\ "alice" \in DOMAIN debtors) =>
               LimitOverwritten
        /\ \A id \in 1..MaxDocs :
               (/\ update_order_status(id, "completed")
                /\ id \in DOMAIN orders
                /\ orders[id].payment_method = "credit") => LimitOverwritten
        /\ (dashboard /\ LoggedCount(Alice) > 0) => LimitOverwritten]_vars

C18_Witness_ManualLimitLost ==
    /\ Registered
    /\ customers[Alice].tier_override
    /\ customers[Alice].credit_limit = 80
    /\ point_history # <<>>
    /\ point_history[Len(point_history)].reason = "Payment"

(* C20: the two records of a customer's debt agree: after any sequence of  *)
(* credit sales, order completions, payments and sale deletions, run one   *)
(* at a time, current_debt equals the balance of the debtor record under   *)
(* the customer's name, an absent record counting as balance 0             *)
C20_DebtRecordsAgree ==
    \A p \in DOMAIN customers :
        customers[p].current_debt = Balance(customers[p].name)

(* C21: a sweep run right after a sweep, with the same clock reading and   *)
(* nothing in between, takes no points, adds no point-history entry and    *)
(* changes no customer record                                              *)
C21_SweepIdempotent ==
    [][(dashboard /\ JustSwept) =>
           /\ customers' = customers
           /\ point_history' = point_history]_vars

C21_Witness_SecondRunAfterPenalty ==
    /\ swept.rerun
    /\ JustSwept
    /\ Registered
    /\ now = 28
    /\ customers[Alice].last_debt_check = 28
    /\ point_history # <<>>
    /\ point_history[Len(point_history)].change = -2

(* The sales that came from an order *)
SalesOfOrder(order_id) == {id \in DOMAIN sales : sales[id].from_order = order_id}

(* C22: each order gives rise to at most one sale, whatever sequence of    *)
(* update_order_status calls it gets, and is charged to the customer at    *)
(* most once: a credit order that has its sale is not charged again        *)
C22_OneSalePerOrder ==
    /\ \A o \in DOMAIN orders : Cardinality(SalesOfOrder(o)) <= 1
    /\ \A p \in DOMAIN customers :
           (DOMAIN orders = {1} /\ orders[1].customer_phone = p) =>
               customers[p].current_debt <= orders[1].total

(* The price of the first n items of an order *)
RECURSIVE PriceOfItems(_, _, _)
PriceOfItems(items, method, n) ==
    IF n = 0 THEN 0
    ELSE PriceOfItems(items, method, n - 1)
         + items[n].qty * (IF items[n].type = "loose" THEN 150
                           ELSE IF method = "credit" THEN 4000 ELSE 3000)

(* C23: customer_create_order stores a credit order only when              *)
(* credit_enabled is true and the total is <= credit_limit - current_debt; *)
(* otherwise, and whenever the item list is empty, it answers an error and *)
(* orders is unchanged; a stored order is 'pending' and its total is the   *)
(* sum of 1.50 x qty for loose and 30 x qty (cash) or 40 x qty (credit)    *)
(* for packs                                                               *)
C23_OrderAdmission ==
    [][\A items \in OrderItems, method \in Methods :
        customer_create_order(Alice, items, method) =>
            LET c == customers[Alice]
                total == PriceOfItems(items, method, Len(items))
                admitted ==
                    /\ items # <<>>
                    /\ method = "credit" =>
                           /\ c.credit_enabled
                           /\ total <= c.credit_limit * 100 - c.current_debt
            IN IF admitted
               THEN /\ resp'.status = "success"
                    /\ \E id \in DOMAIN orders' \ DOMAIN orders :
                           /\ DOMAIN orders' = DOMAIN orders \cup {id}
                           /\ orders'[id].status = "pending"
                           /\ orders'[id].total = total
                           /\ orders'[id].items = items
                           /\ orders'[id].payment_method = method
                           /\ orders'[id].customer_phone = Alice
                    /\ \A id \in DOMAIN orders : orders'[id] = orders[id]
               ELSE /\ resp'.status = "error"
                    /\ orders' = orders]_vars

C23_Witness_CreditUpToLimit ==
    /\ Registered
    /\ customers[Alice].current_debt = 4000
    /\ customers[Alice].credit_limit = 80
    /\ DOMAIN orders = {1, 2}
    /\ orders[1].status = "completed"
    /\ orders[2].status = "pending"
    /\ orders[2].payment_method = "credit"
    /\ orders[2].total = 4000

====
